---- MODULE Spec2Model ----
(***************************************************************************)
(* The tool-calling chat loop of LinkedAI (linkedAI/agents/chat_agent.py)  *)
(* with the collaborators it calls (query_agent.py, resume_agent.py) and   *)
(* the message log it keeps (data_models.py).                              *)
(*                                                                         *)
(* ChatAgent.chat is a generator.  Its control position is pc:             *)
(*   "idle"     no turn has been started yet                               *)
(*   "loop"     at the test of the while loop (line 217)                   *)
(*   "dispatch" at the top of the body of the for loop (line 248)          *)
(*   "try"      suspended at the progress marker, inside the try block     *)
(*   "except"   suspended at the yield of an except handler                *)
(*   "final"    suspended at the 'Finalizing response' marker (line 378)   *)
(*   "done"     the generator returned                                     *)
(*   "failed"   an exception of the model call left the generator          *)
(*                                                                         *)
(* Spec and FairSpec are one ChatAgent and its turns, one after another;   *)
(* AppSpec is the presentation shell (gradio.py) serving several requests  *)
(* at a time and resetting the conversation; DirectSpec is the methods of  *)
(* the collaborators called on their own.                                  *)
(***************************************************************************)
EXTENDS Integers, Sequences, FiniteSets, TLC

VARIABLES
    history,         \* ChatAgent.chat_history.messages
    max_iterations,  \* ChatAgent.max_iterations
    session,         \* the ChatSession of the turn in progress
    pc,              \* control position of the generator
    tool_calls,      \* choice.message.tool_calls of the round in progress
    idx,             \* position of the for loop in tool_calls (1-based)
    pending,         \* str(e) of the exception the except handler holds
    fragments,       \* the fragments the turn has yielded so far
    modelLog,        \* the model calls of the turn: "tools" or "no_tools" each
    offered,         \* the tools argument of each model call of the turn
    collabLog,       \* the collaborator calls of the turn, in call order
    nextId,          \* the next call identifier the model backend hands out
    turns,           \* number of turns started
    direct,          \* the last direct call of a collaborator method
    agent,           \* LinkedAIGradioApp.agent: 0 for None, else the instance
    agents,          \* number of ChatAgent instances constructed by the app
    chat_history,    \* chat_history.messages of every constructed instance
    appended_by,     \* for every message of chat_history, the request whose
                     \* turn appended it (0 for the constructor)
    handler,         \* the executions of chat_response, one per request
    reset_result     \* the text reset_conversation returned last

\* the state of one ChatAgent and of the turn it runs
chatVars == <<history, max_iterations, session, pc, tool_calls, idx, pending,
              fragments, modelLog, offered, collabLog, nextId, turns>>

\* the state of the LinkedAIGradioApp and of the requests it serves
appVars == <<agent, agents, chat_history, appended_by, handler, reset_result>>

vars == <<chatVars, direct, appVars>>

-----------------------------------------------------------------------------
(* Bounds of the model. *)

\* The turns of a run, numbered
TurnNumbers == {1, 2}

\* The call identifiers the model backend hands out in a run: 1..MaxCallIds
MaxCallIds == 2

\* The values of max_iterations: those whose cap a turn can reach with the
\* call identifiers there are
IterationChoices == 1..MaxCallIds

\* The values ChatAgent(max_iterations) is built with: the constructor
\* stores any integer, and main passes int(LINKEDAI_MAX_ITERATIONS) as it
\* is.  0 stands for the values below one, which give the same runs.
MaxIterationsValues == {0} \cup IterationChoices

\* What the vector store returns for a query: the documents of the one query.
StoreDocs == {<<>>, <<"j2", "j1">>}

\* The jobs a match_job_to_resume payload can carry.
SuppliedJobs == {<<"j2", "j1">>}

\* message.content of a model reply
Contents == {"", "answer"}

\* n_results of a search_jobs payload
NResultsValues == {2}

\* The chat requests the app receives
Requests == {1, 2}

\* The ChatAgent instances the app constructs in a run
AgentIds == {1, 2, 3}

\* The text of a chat request: empty, blanks only, or words
Messages == {"", " ", "Find me Python jobs"}

\* The job postings of the vector store
JobIds == {"j1", "j2", "j3"}

\* The longest list of documents the store returns to a direct call, and the
\* largest n_results of one
MaxDocs == 3

\* The lists of documents of at most n postings
DocLists(n) == UNION {[1..k -> JobIds] : k \in 0..n}

-----------------------------------------------------------------------------
(* Values.  Every piece of text is a record of one shape, so that messages *)
(* and fragments of different kinds can be compared.                       *)

Rec(kind, text, jobs, best) ==
    [kind |-> kind, text |-> text, jobs |-> jobs, best |-> best]

Text(s) == Rec("text", s, <<>>, 0)

\* Python's None where a result object is expected
None == Rec("None", "", <<>>, 0)

SearchResults(jobs) == Rec("SearchResults", "", jobs, 0)

ResumeMatchResult(best_match_id, reasoning) ==
    Rec("ResumeMatchResult", reasoning, <<>>, best_match_id)

ResumeTweakResult(suggestions) == Rec("ResumeTweakResult", suggestions, <<>>, 0)

\* bool(x) of a result object or None: a pydantic model defines neither
\* __bool__ nor __len__, so every model object is true.
Truthy(x) == x.kind # "None"

\* a serialization that loses the list of postings
model_dump_json_without_jobs(r) == Rec("json_SearchResults", r.text, <<>>, r.best)

\* result.model_dump_json(): the JSON text of the object; the text names the
\* fields of the object's class and keeps the order of its lists
model_dump_json(r) ==
    Rec(CASE r.kind = "SearchResults" -> "json_SearchResults"
          [] r.kind = "ResumeMatchResult" -> "json_ResumeMatchResult"
          [] r.kind = "ResumeTweakResult" -> "json_ResumeTweakResult"
          [] OTHER -> "json_null",
        r.text, r.jobs, r.best)

\* f"Error: {str(e)}"
ErrorContent(e) == Rec("Error", e, <<>>, 0)

IsErrorContent(c) == c.kind = "Error"

-----------------------------------------------------------------------------
(* Messages (data_models.py).  tool_call_id 0 and name "" stand for the    *)
(* fields a message of that role does not have.                            *)

SystemMessage(content) ==
    [role |-> "system", content |-> Text(content), tool_calls |-> <<>>,
     tool_call_id |-> 0, name |-> ""]

\* the user message built with the role of the system message
UserMessageAsSystem(content) ==
    [role |-> "system", content |-> Text(content), tool_calls |-> <<>>,
     tool_call_id |-> 0, name |-> ""]

UserMessage(content) ==
    [role |-> "user", content |-> Text(content), tool_calls |-> <<>>,
     tool_call_id |-> 0, name |-> ""]

\* the assistant message built without its tool_calls
AssistantMessageWithoutCalls(content, calls) ==
    [role |-> "assistant", content |-> Text(content), tool_calls |-> <<>>,
     tool_call_id |-> 0, name |-> ""]

\* tool_calls is None when the reply carries no calls: the empty sequence
AssistantMessage(content, calls) ==
    [role |-> "assistant", content |-> Text(content), tool_calls |-> calls,
     tool_call_id |-> 0, name |-> ""]

ToolMessage(content, name, tool_call_id) ==
    [role |-> "tool", content |-> content, tool_calls |-> <<>>,
     tool_call_id |-> tool_call_id, name |-> name]

\* ChatHistory(): the one system message
ChatHistory == <<SystemMessage("CHAT_AGENT_SYSTEM_PROMPT")>>

\* an append that puts the message in front of the list
append_message_in_front(h, m) == <<m>> \o h

\* ChatHistory.append_message
append_message(h, m) == Append(h, m)

\* ChatSession() with the default cap of the dataclass
ChatSessionDefaultCap(m) ==
    [iterations |-> 0, max_iterations |-> 5,
     tool_results |-> [last_search |-> None, last_match |-> None,
                       last_tweaks |-> None],
     last_search_results |-> None]

\* ChatSession(max_iterations=m) after __post_init__
ChatSession(m) ==
    [iterations |-> 0, max_iterations |-> m,
     tool_results |-> [last_search |-> None, last_match |-> None,
                       last_tweaks |-> None],
     last_search_results |-> None]

-----------------------------------------------------------------------------
(* Tool calls of a model reply and their argument payloads.                *)
(* shape names the JSON text of function.arguments:                        *)
(*   "malformed"        not JSON                                           *)
(*   "empty"            {}                                                 *)
(*   "query"            {"query": ..., "n_results": n_results}             *)
(*   "jobs"             {"jobs": {"jobs": jobs}}                           *)
(*   "job_description"  {"job_description": ...}                           *)

Payload(shape, n_results, jobs) ==
    [shape |-> shape, n_results |-> n_results, jobs |-> jobs]

ToolNames == {"search_jobs", "match_job_to_resume", "suggest_resume_tweaks",
              "invalid_tool"}

Payloads(name) ==
    CASE name = "search_jobs" ->
           {Payload("query", n, <<>>) : n \in NResultsValues}
             \cup {Payload("malformed", 0, <<>>)}
      [] name = "match_job_to_resume" ->
           {Payload("jobs", 0, j) : j \in SuppliedJobs}
             \cup {Payload("empty", 0, <<>>)}
      [] name = "suggest_resume_tweaks" ->
           {Payload("job_description", 0, <<>>)}
      [] OTHER -> {Payload("empty", 0, <<>>)}

ToolCall(id, name, arguments) ==
    [id |-> id, name |-> name, arguments |-> arguments]

\* The calls one reply can carry, with identifiers first, first+1, ...
RECURSIVE CallLists(_, _)
CallLists(first, n) ==
    IF n = 0 THEN {<<>>}
    ELSE UNION {{<<ToolCall(first, nm, a)>> \o rest :
                   a \in Payloads(nm), rest \in CallLists(first + 1, n - 1)} :
                nm \in ToolNames}

\* The field set each argument class requires (QueryArgs, ResumeMatchArgs,
\* ResumeTweakArgs: every field is required, none has a default)
RequiredShape(name) ==
    CASE name = "search_jobs" -> "query"
      [] name = "match_job_to_resume" -> "jobs"
      [] name = "suggest_resume_tweaks" -> "job_description"
      [] OTHER -> "none"

\* the parse as it would be with ResumeMatchArgs.jobs declared optional
ParseErrorJobsOptional(name, p) ==
    IF p.shape = "malformed" THEN "JSONDecodeError"
    ELSE IF name = "match_job_to_resume" /\ p.shape = "empty" THEN ""
    ELSE IF p.shape # RequiredShape(name) THEN "ValidationError"
    ELSE ""

\* the arguments taken as they come, neither parsed nor validated
ParseErrorNever(name, p) == ""

\* json.loads(arguments) followed by ArgsClass(**args): the name of the
\* exception raised, "" when the arguments object is built
ParseError(name, p) ==
    IF p.shape = "malformed" THEN "JSONDecodeError"
    ELSE IF p.shape # RequiredShape(name) THEN "ValidationError"
    ELSE ""

-----------------------------------------------------------------------------
(* The collaborators.  ext is what the world outside the process does for  *)
(* one call: whether the OpenAI request fails, the documents the vector    *)
(* store returns, the parsed object of a structured completion.            *)

Ext(fails, docs, parsed) == [fails |-> fails, docs |-> docs, parsed |-> parsed]

Returned(value) == [raised |-> FALSE, exc |-> "", value |-> value]

Raised(exc) == [raised |-> TRUE, exc |-> exc, value |-> None]

\* collection.query(...): results["documents"] holds one list per query
\* embedding, and one embedding is sent
StoreResults(docs) == [documents |-> <<docs>>]

\* QueryAgent.query_vectorstore
query_vectorstore(query_args, ext) ==
    IF ext.fails THEN Raised("APIError")
    ELSE LET results == StoreResults(ext.docs)
             n == Len(results.documents)
         IN  IF \E i \in 1..n : i > Len(results.documents[1])
             THEN Raised("IndexError")
             ELSE Returned(SearchResults(
                      [i \in 1..n |-> results.documents[1][i]]))

\* run_resume_match without the replacement of a null result: the log call
\* that follows reads result.best_match_id
run_resume_match_without_fallback(jobs, ext) ==
    IF ext.fails THEN Raised("UnboundLocalError")
    ELSE IF ext.parsed = None THEN Raised("AttributeError")
    ELSE Returned(ext.parsed)

\* ResumeAgent.run_resume_match: the except clause logs and falls through,
\* so a failed request ends at the read of the unbound name response
run_resume_match(jobs, ext) ==
    IF ext.fails THEN Raised("UnboundLocalError")
    ELSE IF ext.parsed = None THEN Returned(ResumeMatchResult(0, ""))
    ELSE Returned(ext.parsed)

\* The fields of a ResumeTweakArgs object
ResumeTweakArgsFields == {"job_description"}

\* ResumeAgent.run_resume_tweak: the prompt reads resume_tweak_args.job,
\* and ResumeTweakArgs has the one field job_description
run_resume_tweak(resume_tweak_args, ext) ==
    IF "job" \notin ResumeTweakArgsFields THEN Raised("AttributeError")
    ELSE IF ext.fails THEN Raised("UnboundLocalError")
    ELSE Returned(ResumeTweakResult(ext.parsed.text))

ParsedResults == {None, ResumeMatchResult(1, "reasoning")}

\* What the outside world can do for the collaborator call of a tool call
Externals(call) ==
    CASE call.name = "search_jobs" ->
           {Ext(TRUE, <<>>, None)}
             \cup {Ext(FALSE, d, None) :
                     d \in {x \in StoreDocs : Len(x) <= call.arguments.n_results}}
      [] call.name = "match_job_to_resume" ->
           {Ext(TRUE, <<>>, None)} \cup {Ext(FALSE, <<>>, r) : r \in ParsedResults}
      [] OTHER -> {Ext(FALSE, <<>>, ResumeTweakResult("suggestions"))}

\* One entry of collabLog
CollabCall(id, method, jobs) == [id |-> id, method |-> method, jobs |-> jobs]

-----------------------------------------------------------------------------
(* The fragments chat yields.                                              *)

Marker(name) ==
    CASE name = "search_jobs" -> Text("Searching for jobs...")
      [] name = "match_job_to_resume" ->
           Text("Analyzing your resume against the jobs...")
      [] OTHER -> Text("Generating resume optimization suggestions...")

\* error_msg of the three except handlers
ErrorFragment(name, e) ==
    CASE name = "search_jobs" -> Rec("Error searching jobs", e, <<>>, 0)
      [] name = "match_job_to_resume" -> Rec("Error analyzing resume", e, <<>>, 0)
      [] OTHER -> Rec("Error generating suggestions", e, <<>>, 0)

\* ChatAgent._format_job_results
_format_job_results(search_results) ==
    IF ~Truthy(search_results) \/ Len(search_results.jobs) = 0
    THEN Text("No jobs found matching your criteria.")
    ELSE Rec("Found relevant jobs", "", search_results.jobs, 0)

\* ChatAgent._format_resume_match_result
_format_resume_match_result(match_result) ==
    IF ~Truthy(match_result) THEN Text("Unable to analyze resume match.")
    ELSE Rec("Best Match Analysis", match_result.text, <<>>, match_result.best)

\* ChatAgent._format_resume_tweaks
_format_resume_tweaks(tweak_result) ==
    IF ~Truthy(tweak_result) THEN Text("No resume suggestions available.")
    ELSE Rec("Resume Optimization Suggestions", tweak_result.text, <<>>, 0)

Format(name, result) ==
    CASE name = "search_jobs" -> _format_job_results(result)
      [] name = "match_job_to_resume" -> _format_resume_match_result(result)
      [] OTHER -> _format_resume_tweaks(result)

StartFragment == Text("Let me help you with that...")

FinalizingFragment == Text("Finalizing response...")

NoJobsFragment == Text("No jobs available for resume matching")

-----------------------------------------------------------------------------
(* The body of the try block of one tool call in chat, up to the point     *)
(* where the result is in hand: what happened ("ok", "raise", "continue"), *)
(* the result, the session after it and the collaborator calls made.       *)

TryOutcome(kind, exc, result, sess, calls) ==
    [kind |-> kind, exc |-> exc, result |-> result, session |-> sess,
     calls |-> calls]

\* a search branch that calls the collaborator a second time when the
\* first call raised
TrySearchRetrying(call, sess, ext) ==
    LET err == ParseError(call.name, call.arguments) IN
    IF err # "" THEN TryOutcome("raise", err, None, sess, <<>>)
    ELSE LET r == query_vectorstore(call.arguments, ext)
             made == <<CollabCall(call.id, "query_vectorstore", <<>>)>>
         IN  IF r.raised
             THEN TryOutcome("raise", r.exc, None, sess, made \o made)
             ELSE TryOutcome("ok", "", r.value,
                      [sess EXCEPT !.last_search_results = r.value,
                                   !.tool_results.last_search = r.value],
                      made)

\* lines 253-260
TrySearch(call, sess, ext) ==
    LET err == ParseError(call.name, call.arguments) IN
    IF err # "" THEN TryOutcome("raise", err, None, sess, <<>>)
    ELSE LET r == query_vectorstore(call.arguments, ext)
             made == <<CollabCall(call.id, "query_vectorstore", <<>>)>>
         IN  IF r.raised THEN TryOutcome("raise", r.exc, None, sess, made)
             ELSE TryOutcome("ok", "", r.value,
                      [sess EXCEPT !.last_search_results = r.value,
                                   !.tool_results.last_search = r.value],
                      made)

\* resume_match_args.jobs: the SearchResults built from the payload; None
\* stands for an object without the field
ArgsJobs(p) == IF p.shape = "jobs" THEN SearchResults(p.jobs) ELSE None

\* lines 290-310
TryMatch(call, sess, ext) ==
    LET err == ParseError(call.name, call.arguments) IN
    IF err # "" THEN TryOutcome("raise", err, None, sess, <<>>)
    ELSE LET given == ArgsJobs(call.arguments)
             missing == ~Truthy(given)
         IN  IF missing /\ ~Truthy(sess.last_search_results)
             THEN TryOutcome("continue", "", None, sess, <<>>)
             ELSE LET jobs == IF missing THEN sess.last_search_results
                              ELSE given
                      r == run_resume_match(jobs, ext)
                      made == <<CollabCall(call.id, "run_resume_match",
                                           jobs.jobs)>>
                  IN  IF r.raised
                      THEN TryOutcome("raise", r.exc, None, sess, made)
                      ELSE TryOutcome("ok", "", r.value,
                               [sess EXCEPT !.tool_results.last_match = r.value],
                               made)

\* lines 342-348
TryTweak(call, sess, ext) ==
    LET err == ParseError(call.name, call.arguments) IN
    IF err # "" THEN TryOutcome("raise", err, None, sess, <<>>)
    ELSE LET r == run_resume_tweak(call.arguments, ext)
             made == <<CollabCall(call.id, "run_resume_tweak", <<>>)>>
         IN  IF r.raised THEN TryOutcome("raise", r.exc, None, sess, made)
             ELSE TryOutcome("ok", "", r.value,
                      [sess EXCEPT !.tool_results.last_tweaks = r.value],
                      made)

TryBody(call, sess, ext) ==
    CASE call.name = "search_jobs" -> TrySearch(call, sess, ext)
      [] call.name = "match_job_to_resume" -> TryMatch(call, sess, ext)
      [] OTHER -> TryTweak(call, sess, ext)

\* The names the if/elif chain of the for loop has a branch for
HasBranch(name) ==
    name \in {"search_jobs", "match_job_to_resume", "suggest_resume_tweaks"}

-----------------------------------------------------------------------------
(* The replies of the model backend.                                       *)

Reply(fails, content, calls) ==
    [fails |-> fails, content |-> content, calls |-> calls]

\* client.chat.completions.create(..., tools=self._tools()): the request
\* fails, or the reply carries text, or tool calls with fresh identifiers
RepliesWithTools ==
    {Reply(TRUE, "", <<>>)}
      \cup {Reply(FALSE, c, <<>>) : c \in Contents}
      \cup UNION {{Reply(FALSE, "", calls) : calls \in CallLists(nextId, n)} :
                  n \in 1..(MaxCallIds + 1 - nextId)}

\* the request without tools: no tool call can come back
RepliesWithoutTools ==
    {Reply(TRUE, "", <<>>)} \cup {Reply(FALSE, c, <<>>) : c \in Contents}

-----------------------------------------------------------------------------
(* The tool schemas.  A schema is written as the name of its function; its *)
(* description and parameters are constants of the class it comes from.    *)

\* QueryAgent.tool_schema()
tool_schema == "search_jobs"

\* ResumeAgent.resume_match_tool_schema()
resume_match_tool_schema == "match_job_to_resume"

\* ResumeAgent.resume_tweak_tool_schema()
resume_tweak_tool_schema == "suggest_resume_tweaks"

\* a tool list without the schema of the resume tweaks
_tools_without_tweaks == <<tool_schema, resume_match_tool_schema>>

\* ChatAgent._tools
_tools ==
    <<tool_schema, resume_match_tool_schema, resume_tweak_tool_schema>>

-----------------------------------------------------------------------------
(* ChatAgent.chat                                                          *)

\* ChatAgent(max_iterations): the agent before its first turn
ChatInit ==
    /\ history = ChatHistory
    /\ max_iterations \in MaxIterationsValues
    /\ session = ChatSession(max_iterations)
    /\ pc = "idle"
    /\ tool_calls = <<>>
    /\ idx = 0
    /\ pending = ""
    /\ fragments = <<>>
    /\ modelLog = <<>>
    /\ offered = <<>>
    /\ collabLog = <<>>
    /\ nextId = 1
    /\ turns = 0

\* no collaborator method has been called directly
NoDirectCall == [method |-> "", args |-> Payload("empty", 0, <<>>),
                 ext |-> Ext(FALSE, <<>>, None), out |-> Returned(None)]

\* a chat_response that has not been called
NewHandler ==
    [pc |-> "new", message |-> "", checked |-> 0, agent |-> 0,
     session |-> ChatSession(0), tool_calls |-> <<>>, idx |-> 0,
     pending |-> "", shown |-> ""]

\* no app has been constructed
NoApp ==
    /\ agent = 0
    /\ agents = 0
    /\ chat_history = [a \in AgentIds |-> <<>>]
    /\ appended_by = [a \in AgentIds |-> <<>>]
    /\ handler = [r \in Requests |-> NewHandler]
    /\ reset_result = ""

Init ==
    /\ ChatInit
    /\ direct = NoDirectCall
    /\ NoApp

\* the loop test written with <= : one round too many
LoopConditionOffByOne(sess) == sess.iterations <= sess.max_iterations

\* while session.iterations < session.max_iterations (line 217)
LoopCondition(sess) == sess.iterations < sess.max_iterations

\* the round entered without counting it
NextIterationForgotten(i) == i

\* session.iterations += 1 (line 218)
NextIteration(i) == i + 1

\* where the for loop goes after the call at position k of calls
AfterCall(k, calls) == IF k < Len(calls) THEN "dispatch" ELSE "loop"

\* the reply yielded without the test for text
YieldContentAlways(frags, content) == Append(frags, Text(content))

\* if content: yield content (lines 243-244 and 386, 391)
YieldContent(frags, content) ==
    IF content # "" THEN Append(frags, Text(content)) ELSE frags

\* the failure of the model call recorded as an assistant message, the way
\* the except handlers of the tools record theirs
ModelCallRaisedRecorded(h) ==
    append_message(h, AssistantMessage("Error", <<>>))

\* completions.create raises (lines 221 and 379): no try encloses the call,
\* so the exception leaves chat before the append that follows the call
ModelCallRaised(h) == h

\* lines 386-390: the forced reply is appended when it has text
FinalAppend(h, content) ==
    IF content # "" THEN append_message(h, AssistantMessage(content, <<>>))
    ELSE h

\* lines 208-215: a new session, the user message, the first fragment
StartTurn ==
    /\ pc \in {"idle", "done", "failed"}
    /\ turns + 1 \in TurnNumbers
    /\ turns' = turns + 1
    /\ session' = ChatSession(max_iterations)
    /\ history' = append_message(history, UserMessage("user_text"))
    /\ fragments' = <<StartFragment>>
    /\ modelLog' = <<>>
    /\ offered' = <<>>
    /\ collabLog' = <<>>
    /\ tool_calls' = <<>>
    /\ idx' = 0
    /\ pending' = ""
    /\ pc' = "loop"
    /\ UNCHANGED <<max_iterations, nextId>>
    /\ UNCHANGED <<direct, appVars>>

\* a reply without tool calls that does not end the turn
AfterReplyWithoutReturn(calls) == IF calls = <<>> THEN "loop" ELSE "dispatch"

\* lines 234-245: without tool calls the reply is the answer and chat
\* returns; with tool calls the for loop starts
AfterReply(calls) == IF calls = <<>> THEN "done" ELSE "dispatch"

\* lines 217-245: one model call with the tool schemas, the assistant
\* message, and the final answer when the reply carries no tool call
ModelRound ==
    /\ pc = "loop"
    /\ LoopCondition(session)
    /\ session' = [session EXCEPT !.iterations = NextIteration(@)]
    /\ modelLog' = Append(modelLog, "tools")
    /\ offered' = Append(offered, _tools)
    /\ \E reply \in RepliesWithTools :
         IF reply.fails
         THEN /\ pc' = "failed"
              /\ history' = ModelCallRaised(history)
              /\ UNCHANGED <<tool_calls, idx, fragments, nextId>>
         ELSE /\ history' = append_message(history,
                                AssistantMessage(reply.content, reply.calls))
              /\ nextId' = nextId + Len(reply.calls)
              /\ tool_calls' = reply.calls
              /\ pc' = AfterReply(reply.calls)
              /\ IF reply.calls = <<>>
                 THEN /\ fragments' = YieldContent(fragments, reply.content)
                      /\ idx' = 0
                 ELSE /\ fragments' = fragments
                      /\ idx' = 1
    /\ UNCHANGED <<max_iterations, pending, collabLog, turns>>
    /\ UNCHANGED <<direct, appVars>>

\* lines 248-252, 288-289, 340-341: the if/elif chain on the tool name; a
\* name with a branch yields its progress marker, any other name falls
\* through the chain and the loop goes to the next call
ToolDispatch ==
    /\ pc = "dispatch"
    /\ LET call == tool_calls[idx] IN
       IF HasBranch(call.name)
       THEN /\ fragments' = Append(fragments, Marker(call.name))
            /\ pc' = "try"
            /\ idx' = idx
       ELSE /\ fragments' = fragments
            /\ pc' = AfterCall(idx, tool_calls)
            /\ idx' = idx + 1
    /\ UNCHANGED <<history, max_iterations, session, tool_calls, pending,
                   modelLog, offered, collabLog, nextId, turns>>
    /\ UNCHANGED <<direct, appVars>>

\* the try block of the branch: arguments, collaborator, session, the tool
\* message and the formatted result; or the yield of the except handler
ToolTry ==
    /\ pc = "try"
    /\ LET call == tool_calls[idx] IN
       \E ext \in Externals(call) :
         LET o == TryBody(call, session, ext) IN
         /\ collabLog' = collabLog \o o.calls
         /\ session' = o.session
         /\ CASE o.kind = "ok" ->
                   /\ history' = append_message(history,
                                     ToolMessage(model_dump_json(o.result),
                                                 call.name, call.id))
                   /\ fragments' = Append(fragments, Format(call.name, o.result))
                   /\ pending' = ""
                   /\ pc' = AfterCall(idx, tool_calls)
                   /\ idx' = idx + 1
              [] o.kind = "raise" ->
                   /\ history' = history
                   /\ fragments' = Append(fragments,
                                          ErrorFragment(call.name, o.exc))
                   /\ pending' = o.exc
                   /\ pc' = "except"
                   /\ idx' = idx
              [] OTHER ->
                   /\ history' = history
                   /\ fragments' = Append(fragments, NoJobsFragment)
                   /\ pending' = ""
                   /\ pc' = AfterCall(idx, tool_calls)
                   /\ idx' = idx + 1
    /\ UNCHANGED <<max_iterations, tool_calls, modelLog, offered, nextId,
                   turns>>
    /\ UNCHANGED <<direct, appVars>>

\* the rest of the except handler: the error tool message
ToolExcept ==
    /\ pc = "except"
    /\ LET call == tool_calls[idx] IN
       history' = append_message(history,
                      ToolMessage(ErrorContent(pending), call.name, call.id))
    /\ pending' = ""
    /\ pc' = AfterCall(idx, tool_calls)
    /\ idx' = idx + 1
    /\ UNCHANGED <<max_iterations, session, tool_calls, fragments, modelLog,
                   offered,
                   collabLog, nextId, turns>>
    /\ UNCHANGED <<direct, appVars>>

\* lines 376-378: the loop is left by its test, the marker is yielded
FinalizeMarker ==
    /\ pc = "loop"
    /\ ~LoopCondition(session)
    /\ session.iterations >= session.max_iterations
    /\ fragments' = Append(fragments, FinalizingFragment)
    /\ pc' = "final"
    /\ UNCHANGED <<history, max_iterations, session, tool_calls, idx, pending,
                   modelLog, offered, collabLog, nextId, turns>>
    /\ UNCHANGED <<direct, appVars>>

\* lines 379-391: the model call without tools; its text, when there is
\* any, is appended and yielded
FinalizeCall ==
    /\ pc = "final"
    /\ modelLog' = Append(modelLog, "no_tools")
    /\ offered' = Append(offered, <<>>)
    /\ \E reply \in RepliesWithoutTools :
         IF reply.fails
         THEN /\ pc' = "failed"
              /\ history' = ModelCallRaised(history)
              /\ UNCHANGED fragments
         ELSE /\ pc' = "done"
              /\ history' = FinalAppend(history, reply.content)
              /\ fragments' = YieldContent(fragments, reply.content)
    /\ UNCHANGED <<max_iterations, session, tool_calls, idx, pending,
                   collabLog, nextId, turns>>
    /\ UNCHANGED <<direct, appVars>>

Next ==
    \/ StartTurn
    \/ ModelRound
    \/ ToolDispatch
    \/ ToolTry
    \/ ToolExcept
    \/ FinalizeMarker
    \/ FinalizeCall

Spec == Init /\ [][Next]_vars

-----------------------------------------------------------------------------
(* The presentation shell (gradio.py): one LinkedAIGradioApp, whose        *)
(* chat_response handler gradio runs for every request, several at a time  *)
(* (concurrency_limit=5, lines 252-266), each in a thread of its own, and  *)
(* whose reset_conversation handler it runs on the reset button.  Every    *)
(* handler runs chat of the agent it found in self.agent; pc of a handler: *)
(*   "new"       chat_response has not been called for the request         *)
(*   "checked"   past the test "if not self.agent" (line 105); checked is  *)
(*               the instance self.agent named at the test                 *)
(*   "start"     the generator agent.chat(message) is created, not started *)
(*   "loop" ... "final"   the positions of chat, as above                  *)
(*   "returned"  chat_response is over                                     *)

Min(S) == CHOOSE x \in S : \A y \in S : x <= y

\* message.strip()
strip(message) == IF message = " " THEN "" ELSE message

\* _initialize_agent (lines 63-77) with count instances constructed so far:
\* ok says whether the environment validates and ChatAgent(...) returns;
\* the new instance has a history of its own
_initialize_agent(ok, count, histories, owners) ==
    IF ok
    THEN [agent |-> count + 1, agents |-> count + 1,
          chat_history |-> [histories EXCEPT ![count + 1] = ChatHistory],
          appended_by |-> [owners EXCEPT ![count + 1] = <<0>>]]
    ELSE [agent |-> 0, agents |-> count,
          chat_history |-> histories, appended_by |-> owners]

\* LinkedAIGradioApp(max_iterations) (lines 28-37); the app is run with
\* the smallest cap, one with-tools round in a turn
AppInit ==
    /\ ChatInit
    /\ max_iterations = Min(IterationChoices)
    /\ direct = NoDirectCall
    /\ \E ok \in BOOLEAN :
         LET app == _initialize_agent(ok, 0, [a \in AgentIds |-> <<>>],
                                      [a \in AgentIds |-> <<>>])
         IN  /\ agent = app.agent
             /\ agents = app.agents
             /\ chat_history = app.chat_history
             /\ appended_by = app.appended_by
    /\ handler = [r \in Requests |-> NewHandler]
    /\ reset_result = ""

\* The call identifier the backend gives the tool call of round n of the
\* turn of request r: no two calls share one
AppCallId(r, n) == (r - 1) * Cardinality(IterationChoices) + n

\* The replies of the model backend to a with-tools call of a request
AppReplies(r, n) ==
    {Reply(TRUE, "", <<>>), Reply(FALSE, "answer", <<>>),
     Reply(FALSE, "", <<ToolCall(AppCallId(r, n), "search_jobs",
                                 Payload("query", 2, <<>>))>>)}

\* What the store and the embedding request do for a search of a request
AppExternals == {Ext(TRUE, <<>>, None), Ext(FALSE, <<"j2", "j1">>, None)}

\* the message appended to the history of instance a by the turn of r
AppendTo(a, r, m) ==
    /\ chat_history' = [chat_history EXCEPT ![a] = append_message(@, m)]
    /\ appended_by' = [appended_by EXCEPT ![a] = Append(@, r)]

\* a chat_response without its except clause: the exception leaves it
ExceptInShellMissing(h) == [h EXCEPT !.pc = "raised"]

\* lines 123-129: the exception of the turn is caught, the entry of the
\* message shows "**Error**: ..." and chat_response ends
ExceptInShell(h) == [h EXCEPT !.pc = "returned", !.shown = "Error"]

\* chat_response up to the test of self.agent (lines 102-109)
chat_response(r) ==
    /\ handler[r].pc = "new"
    /\ \E message \in Messages :
         handler' = [handler EXCEPT ![r] =
           IF strip(message) = ""
           THEN [@ EXCEPT !.pc = "returned", !.message = message]
           ELSE IF agent = 0
           THEN [@ EXCEPT !.pc = "returned", !.message = message,
                          !.shown = "System Error"]
           ELSE [@ EXCEPT !.pc = "checked", !.message = message,
                          !.checked = agent]]
    /\ UNCHANGED <<agent, agents, chat_history, appended_by, reset_result,
                   chatVars, direct>>

\* lines 111-117: self.agent is read a second time for
\* self.agent.chat(message), inside the try; reset_conversation, which runs
\* in another thread, may have replaced the instance or set it to None in
\* between, and None has no attribute chat (lines 123-129 show the error)
HandlerCreateGenerator(r) ==
    /\ handler[r].pc = "checked"
    /\ handler' = [handler EXCEPT ![r] =
                     IF agent = 0
                     THEN ExceptInShell(@)
                     ELSE [@ EXCEPT !.pc = "start", !.agent = agent]]
    /\ UNCHANGED <<agent, agents, chat_history, appended_by, reset_result,
                   chatVars, direct>>

\* the first next() on the generator: chat lines 208-215
HandlerStartTurn(r) ==
    /\ handler[r].pc = "start"
    /\ AppendTo(handler[r].agent, r, UserMessage(handler[r].message))
    /\ handler' = [handler EXCEPT ![r] =
                     [@ EXCEPT !.pc = "loop",
                               !.session = ChatSession(max_iterations),
                               !.shown = "response"]]
    /\ UNCHANGED <<agent, agents, reset_result, chatVars, direct>>

\* chat lines 217-245 inside the handler; the exception of a failed model
\* call is caught by chat_response (lines 123-129)
HandlerModelRound(r) ==
    /\ handler[r].pc = "loop"
    /\ LoopCondition(handler[r].session)
    /\ LET sess == [handler[r].session EXCEPT
                      !.iterations = NextIteration(@)]
       IN  \E reply \in AppReplies(r, sess.iterations) :
             IF reply.fails
             THEN /\ chat_history' =
                       [chat_history EXCEPT
                          ![handler[r].agent] = ModelCallRaised(@)]
                  /\ appended_by' = appended_by
                  /\ handler' = [handler EXCEPT ![r] =
                                   ExceptInShell([@ EXCEPT !.session = sess])]
             ELSE /\ AppendTo(handler[r].agent, r,
                               AssistantMessage(reply.content, reply.calls))
                  /\ handler' = [handler EXCEPT ![r] =
                       [@ EXCEPT !.session = sess,
                                 !.tool_calls = reply.calls,
                                 !.idx = IF reply.calls = <<>> THEN 0 ELSE 1,
                                 !.pc = IF reply.calls = <<>> THEN "returned"
                                        ELSE "dispatch"]]
    /\ UNCHANGED <<agent, agents, reset_result, chatVars, direct>>

\* chat lines 248-252, 288-289, 340-341 inside the handler
HandlerToolDispatch(r) ==
    /\ handler[r].pc = "dispatch"
    /\ LET h == handler[r]
           call == h.tool_calls[h.idx]
       IN  handler' = [handler EXCEPT ![r] =
             IF HasBranch(call.name)
             THEN [@ EXCEPT !.pc = "try"]
             ELSE [@ EXCEPT !.pc = AfterCall(h.idx, h.tool_calls),
                            !.idx = h.idx + 1]]
    /\ UNCHANGED <<agent, agents, chat_history, appended_by, reset_result,
                   chatVars, direct>>

\* the try block of the tool call inside the handler
HandlerToolTry(r) ==
    /\ handler[r].pc = "try"
    /\ LET h == handler[r]
           call == h.tool_calls[h.idx]
       IN  \E ext \in AppExternals :
             LET o == TryBody(call, h.session, ext) IN
             CASE o.kind = "ok" ->
                    /\ AppendTo(h.agent, r,
                                ToolMessage(model_dump_json(o.result),
                                            call.name, call.id))
                    /\ handler' = [handler EXCEPT ![r] =
                         [@ EXCEPT !.session = o.session,
                                   !.pc = AfterCall(h.idx, h.tool_calls),
                                   !.idx = h.idx + 1]]
               [] o.kind = "raise" ->
                    /\ UNCHANGED <<chat_history, appended_by>>
                    /\ handler' = [handler EXCEPT ![r] =
                         [@ EXCEPT !.session = o.session,
                                   !.pending = o.exc,
                                   !.pc = "except"]]
               [] OTHER ->
                    /\ UNCHANGED <<chat_history, appended_by>>
                    /\ handler' = [handler EXCEPT ![r] =
                         [@ EXCEPT !.session = o.session,
                                   !.pc = AfterCall(h.idx, h.tool_calls),
                                   !.idx = h.idx + 1]]
    /\ UNCHANGED <<agent, agents, reset_result, chatVars, direct>>

\* the rest of the except handler inside the handler
HandlerToolExcept(r) ==
    /\ handler[r].pc = "except"
    /\ LET h == handler[r]
           call == h.tool_calls[h.idx]
       IN  /\ AppendTo(h.agent, r,
                       ToolMessage(ErrorContent(h.pending), call.name,
                                   call.id))
           /\ handler' = [handler EXCEPT ![r] =
                [@ EXCEPT !.pending = "",
                          !.pc = AfterCall(h.idx, h.tool_calls),
                          !.idx = h.idx + 1]]
    /\ UNCHANGED <<agent, agents, reset_result, chatVars, direct>>

\* chat lines 376-378 inside the handler
HandlerFinalizeMarker(r) ==
    /\ handler[r].pc = "loop"
    /\ ~LoopCondition(handler[r].session)
    /\ handler[r].session.iterations >= handler[r].session.max_iterations
    /\ handler' = [handler EXCEPT ![r] = [@ EXCEPT !.pc = "final"]]
    /\ UNCHANGED <<agent, agents, chat_history, appended_by, reset_result,
                   chatVars, direct>>

\* chat lines 379-391 inside the handler
HandlerFinalizeCall(r) ==
    /\ handler[r].pc = "final"
    /\ \E reply \in RepliesWithoutTools :
         IF reply.fails
         THEN /\ chat_history' =
                   [chat_history EXCEPT
                      ![handler[r].agent] = ModelCallRaised(@)]
              /\ appended_by' = appended_by
              /\ handler' = [handler EXCEPT ![r] = ExceptInShell(@)]
         ELSE /\ chat_history' =
                   [chat_history EXCEPT
                      ![handler[r].agent] = FinalAppend(@, reply.content)]
              /\ appended_by' =
                   [appended_by EXCEPT
                      ![handler[r].agent] =
                         IF reply.content # "" THEN Append(@, r) ELSE @]
              /\ handler' = [handler EXCEPT ![r] = [@ EXCEPT !.pc = "returned"]]
    /\ UNCHANGED <<agent, agents, reset_result, chatVars, direct>>

\* reset_conversation (lines 131-148)
reset_conversation ==
    /\ agent # 0 => agents + 1 \in AgentIds
    /\ IF agent # 0
       THEN /\ \E ok \in BOOLEAN :
                 LET app == _initialize_agent(ok, agents, chat_history,
                                              appended_by)
                 IN  /\ agent' = app.agent
                     /\ agents' = app.agents
                     /\ chat_history' = app.chat_history
                     /\ appended_by' = app.appended_by
            /\ reset_result' = "CONVERSATION RESET"
       ELSE /\ reset_result' = "Unable to reset"
            /\ UNCHANGED <<agent, agents, chat_history, appended_by>>
    /\ UNCHANGED <<handler, chatVars, direct>>

AppNext ==
    \/ \E r \in Requests : chat_response(r)
    \/ \E r \in Requests : HandlerCreateGenerator(r)
    \/ \E r \in Requests : HandlerStartTurn(r)
    \/ \E r \in Requests : HandlerModelRound(r)
    \/ \E r \in Requests : HandlerToolDispatch(r)
    \/ \E r \in Requests : HandlerToolTry(r)
    \/ \E r \in Requests : HandlerToolExcept(r)
    \/ \E r \in Requests : HandlerFinalizeMarker(r)
    \/ \E r \in Requests : HandlerFinalizeCall(r)
    \/ reset_conversation

AppSpec == AppInit /\ [][AppNext]_vars

-----------------------------------------------------------------------------
(* The collaborator methods called directly, outside a turn, on arguments  *)
(* objects that are already built.                                         *)

DirectCall(method, args, ext, out) ==
    [method |-> method, args |-> args, ext |-> ext, out |-> out]

\* What the store and the embedding request can do for a query of n results:
\* the store returns the nearest postings, at most n of them
DirectQueryExternals(n) ==
    {Ext(TRUE, <<>>, None)} \cup {Ext(FALSE, d, None) : d \in DocLists(n)}

\* What the completion request of a resume match can do: fail, or come back
\* with a parsed result or with none
DirectMatchExternals ==
    {Ext(TRUE, <<>>, None), Ext(FALSE, <<>>, None),
     Ext(FALSE, <<>>, ResumeMatchResult(0, "Test reasoning")),
     Ext(FALSE, <<>>, ResumeMatchResult(1, "reasoning"))}

\* What the completion request of a resume tweak can do: fail, or come back
\* with text or with none
DirectTweakExternals ==
    {Ext(TRUE, <<>>, None), Ext(FALSE, <<>>, ResumeTweakResult("")),
     Ext(FALSE, <<>>, ResumeTweakResult("Test response"))}

\* agent.query_vectorstore(QueryArgs(query=..., n_results=n))
DirectQuery ==
    /\ \E n \in 1..MaxDocs : \E ext \in DirectQueryExternals(n) :
         LET query_args == Payload("query", n, <<>>) IN
         direct' = DirectCall("query_vectorstore", query_args, ext,
                              query_vectorstore(query_args, ext))
    /\ UNCHANGED <<chatVars, appVars>>

\* agent.run_resume_match(ResumeMatchArgs(jobs=SearchResults(jobs=...)))
DirectMatch ==
    /\ \E jobs \in DocLists(MaxDocs) : \E ext \in DirectMatchExternals :
         direct' = DirectCall("run_resume_match", Payload("jobs", 0, jobs), ext,
                              run_resume_match(SearchResults(jobs), ext))
    /\ UNCHANGED <<chatVars, appVars>>

\* agent.run_resume_tweak(ResumeTweakArgs(job_description=...))
DirectTweak ==
    /\ \E ext \in DirectTweakExternals :
         LET resume_tweak_args == Payload("job_description", 0, <<>>) IN
         direct' = DirectCall("run_resume_tweak", resume_tweak_args, ext,
                              run_resume_tweak(resume_tweak_args, ext))
    /\ UNCHANGED <<chatVars, appVars>>

\* The values a model can put in the n_results field: any JSON integer
SearchNResults == {-1, 0, 1, 2}

\* What the store and the embedding request can do for the query of a
\* search_jobs call: for n_results below one the store raises or returns no
\* document
SearchBranchExternals(n) ==
    IF n < 1 THEN {Ext(TRUE, <<>>, None), Ext(FALSE, <<>>, None)}
    ELSE DirectQueryExternals(n)

\* The try body of the search_jobs branch of chat for one tool call whose
\* payload is {"query": ..., "n_results": n}
DirectSearchBranch ==
    /\ \E n \in SearchNResults : \E ext \in SearchBranchExternals(n) :
         LET call == ToolCall(1, "search_jobs", Payload("query", n, <<>>)) IN
         direct' = DirectCall("chat.search_jobs", call, ext,
                              TrySearch(call, ChatSession(1), ext))
    /\ UNCHANGED <<chatVars, appVars>>

\* What resume_path can name: no file, an empty file, a text file, a file
\* the process may not read, a .pdf that is not a PDF, and a file in a
\* directory the process may not search
ResumeFiles == {"missing", "empty", "text", "unreadable", "corrupt_pdf",
                "inaccessible"}

\* resume_path.exists(): pathlib answers False for a missing file and
\* re-raises the error of stat() where the directory may not be searched
\* (later releases answer False there); the answers are written "True",
\* "False" and the name of the exception
exists(resume_path) ==
    CASE resume_path = "missing" -> {"False"}
      [] resume_path = "inaccessible" -> {"PermissionError", "False"}
      [] OTHER -> {"True"}

\* PdfReader(...) and the page texts joined, or read_text(encoding="utf-8")
read_text(resume_path) ==
    CASE resume_path = "empty" -> Returned("")
      [] resume_path = "text" -> Returned("resume text")
      [] resume_path = "unreadable" -> Raised("PermissionError")
      [] OTHER -> Raised("PdfReadError")

\* ResumeAgent._load_resume; found is what resume_path.exists() did
_load_resume(resume_path, found) ==
    IF found \notin {"True", "False"} THEN Raised(found)
    ELSE IF found = "False" THEN Returned("")
    ELSE LET text == read_text(resume_path) IN
         IF text.raised THEN Returned("") ELSE text

\* ResumeAgent.__init__: the except clause logs and raises again
ResumeAgent(resume_path, found) ==
    LET loaded == _load_resume(resume_path, found) IN
    IF loaded.raised THEN Raised(loaded.exc)
    ELSE Returned([resume |-> loaded.value])

\* ResumeAgent(openai_client=..., resume_path=...)
DirectConstruct ==
    /\ \E resume_path \in ResumeFiles : \E found \in exists(resume_path) :
         direct' = DirectCall("ResumeAgent", resume_path, found,
                              ResumeAgent(resume_path, found))
    /\ UNCHANGED <<chatVars, appVars>>

\* ChatAgent._execute_tool_call: what happened ("ok" or "raise"), the
\* result, the session after it and the collaborator calls made
_execute_tool_call(tool_call, sess, ext) ==
    LET args == tool_call.arguments
        tool_name == tool_call.name
        invalid == IF args.shape # RequiredShape(tool_name)
                   THEN "ValidationError" ELSE ""
    IN
    IF args.shape = "malformed"
    THEN TryOutcome("raise", "JSONDecodeError", None, sess, <<>>)
    ELSE IF tool_name = "search_jobs"
    THEN IF invalid # "" THEN TryOutcome("raise", invalid, None, sess, <<>>)
         ELSE LET r == query_vectorstore(args, ext)
                  made == <<CollabCall(tool_call.id, "query_vectorstore", <<>>)>>
              IN  IF r.raised THEN TryOutcome("raise", r.exc, None, sess, made)
                  ELSE TryOutcome("ok", "", r.value,
                           [sess EXCEPT !.last_search_results = r.value,
                                        !.tool_results.last_search = r.value],
                           made)
    ELSE IF tool_name = "match_job_to_resume"
    THEN IF invalid # "" THEN TryOutcome("raise", invalid, None, sess, <<>>)
         ELSE LET given == ArgsJobs(args)
                  missing == ~Truthy(given)
              IN  IF missing /\ ~Truthy(sess.last_search_results)
                  THEN TryOutcome("raise", "InvalidToolError", None, sess, <<>>)
                  ELSE LET jobs == IF missing THEN sess.last_search_results
                                   ELSE given
                           r == run_resume_match(jobs, ext)
                           made == <<CollabCall(tool_call.id,
                                                "run_resume_match", jobs.jobs)>>
                       IN  IF r.raised
                           THEN TryOutcome("raise", r.exc, None, sess, made)
                           ELSE TryOutcome("ok", "", r.value,
                                    [sess EXCEPT
                                       !.tool_results.last_match = r.value],
                                    made)
    ELSE IF tool_name = "suggest_resume_tweaks"
    THEN IF invalid # "" THEN TryOutcome("raise", invalid, None, sess, <<>>)
         ELSE LET r == run_resume_tweak(args, ext)
                  made == <<CollabCall(tool_call.id, "run_resume_tweak", <<>>)>>
              IN  IF r.raised THEN TryOutcome("raise", r.exc, None, sess, made)
                  ELSE TryOutcome("ok", "", r.value,
                           [sess EXCEPT !.tool_results.last_tweaks = r.value],
                           made)
    ELSE TryOutcome("raise", "InvalidToolError", None, sess, <<>>)

\* What _process_all_tool_calls has in hand: the results list, the history,
\* the session, the collaborator calls made, and whether an exception left
\* the method
Processed(results, h, sess, calls, raised) ==
    [results |-> results, history |-> h, session |-> sess, calls |-> calls,
     raised |-> raised]

\* an except arm that lets the exception go on
ExceptArmReraising(acc, tool_call, o) ==
    Processed(acc.results, acc.history, o.session, acc.calls \o o.calls, TRUE)

\* lines 141-151: the error tool message, then None for the call
ExceptArm(acc, tool_call, o) ==
    Processed(Append(acc.results, None),
              append_message(acc.history,
                  ToolMessage(ErrorContent(o.exc), tool_call.name,
                              tool_call.id)),
              o.session, acc.calls \o o.calls, acc.raised)

\* lines 130-140: the result, then its tool message
TryArm(acc, tool_call, o) ==
    Processed(Append(acc.results, o.result),
              append_message(acc.history,
                  ToolMessage(model_dump_json(o.result), tool_call.name,
                              tool_call.id)),
              o.session, acc.calls \o o.calls, acc.raised)

\* the for loop of _process_all_tool_calls from call k on; exts[k] is what
\* the outside world does for call k
RECURSIVE ProcessLoop(_, _, _, _)
ProcessLoop(k, tool_calls_, exts, acc) ==
    IF k > Len(tool_calls_) \/ acc.raised THEN acc
    ELSE LET o == _execute_tool_call(tool_calls_[k], acc.session, exts[k]) IN
         ProcessLoop(k + 1, tool_calls_, exts,
                     IF o.kind = "ok" THEN TryArm(acc, tool_calls_[k], o)
                     ELSE ExceptArm(acc, tool_calls_[k], o))

\* ChatAgent._process_all_tool_calls on history h
_process_all_tool_calls(tool_calls_, sess, exts, h) ==
    ProcessLoop(1, tool_calls_, exts, Processed(<<>>, h, sess, <<>>, FALSE))

\* The lists of tool calls handed to _process_all_tool_calls
ProcessLengths == {0, 1, 2}

\* What the outside world can do for each call of a list, call by call
RECURSIVE ExternalsOfAll(_)
ExternalsOfAll(tool_calls_) ==
    IF tool_calls_ = <<>> THEN {<<>>}
    ELSE {<<e>> \o rest : e \in Externals(Head(tool_calls_)),
                          rest \in ExternalsOfAll(Tail(tool_calls_))}

\* agent._process_all_tool_calls(tool_calls, ChatSession(...)) on a fresh
\* history
DirectProcessAll ==
    /\ \E n \in ProcessLengths : \E calls \in CallLists(1, n) :
         \E exts \in ExternalsOfAll(calls) :
           direct' = DirectCall("_process_all_tool_calls", calls, exts,
                                _process_all_tool_calls(calls, ChatSession(1),
                                                        exts, ChatHistory))
    /\ UNCHANGED <<chatVars, appVars>>

\* What the for loop of chat has in hand while it goes through the tool
\* calls of one reply: the history, the session, the collaborator calls
\* made, the fragments yielded, and the session as it was after each call
Inlined(h, sess, calls, frags, sessions) ==
    [history |-> h, session |-> sess, calls |-> calls, fragments |-> frags,
     sessions |-> sessions]

\* lines 248-374 for one tool call: the if/elif chain, the try body of the
\* branch and its except handler
InlineCall(acc, tool_call, ext) ==
    IF ~HasBranch(tool_call.name)
    THEN Inlined(acc.history, acc.session, acc.calls, acc.fragments,
                 Append(acc.sessions, acc.session))
    ELSE LET o == TryBody(tool_call, acc.session, ext)
             marked == Append(acc.fragments, Marker(tool_call.name))
         IN  CASE o.kind = "ok" ->
                    Inlined(append_message(acc.history,
                                ToolMessage(model_dump_json(o.result),
                                            tool_call.name, tool_call.id)),
                            o.session, acc.calls \o o.calls,
                            Append(marked, Format(tool_call.name, o.result)),
                            Append(acc.sessions, o.session))
               [] o.kind = "raise" ->
                    Inlined(append_message(acc.history,
                                ToolMessage(ErrorContent(o.exc),
                                            tool_call.name, tool_call.id)),
                            o.session, acc.calls \o o.calls,
                            Append(marked,
                                   ErrorFragment(tool_call.name, o.exc)),
                            Append(acc.sessions, o.session))
               [] OTHER ->
                    Inlined(acc.history, o.session, acc.calls \o o.calls,
                            Append(marked, NoJobsFragment),
                            Append(acc.sessions, o.session))

\* the for loop of chat (line 248) from call k on
RECURSIVE InlineLoop(_, _, _, _)
InlineLoop(k, tool_calls_, exts, acc) ==
    IF k > Len(tool_calls_) THEN acc
    ELSE InlineLoop(k + 1, tool_calls_, exts,
                    InlineCall(acc, tool_calls_[k], exts[k]))

\* the for loop of chat over the tool calls of one reply, on history h
InlineRound(tool_calls_, sess, exts, h) ==
    InlineLoop(1, tool_calls_, exts, Inlined(h, sess, <<>>, <<>>, <<>>))

\* The sessions a round can start with: that of a new turn, and one that
\* holds the result of a search made in an earlier round of the turn
RoundSessions ==
    {ChatSession(1),
     [ChatSession(1) EXCEPT
        !.iterations = 1,
        !.last_search_results = SearchResults(<<"j3">>),
        !.tool_results.last_search = SearchResults(<<"j3">>)]}

\* One reply's tool calls handled by the for loop of chat and, on an agent
\* in the same state, by _process_all_tool_calls; both on an agent no
\* method has been called on
DirectBothPaths ==
    /\ direct.method = ""
    /\ \E n \in ProcessLengths : \E calls \in CallLists(1, n) :
         \E sess \in RoundSessions : \E exts \in ExternalsOfAll(calls) :
           direct' = DirectCall("chat.for", [calls |-> calls, session |-> sess],
                                exts,
                                [inline |-> InlineRound(calls, sess, exts,
                                                        ChatHistory),
                                 processed |->
                                   _process_all_tool_calls(calls, sess, exts,
                                                           ChatHistory)])
    /\ UNCHANGED <<chatVars, appVars>>

\* The job links scrape_job_links_from_search_page can return: a list
\* without repetitions (it is built from a set)
JobLinks == {<<>>, <<"l1">>, <<"l1", "l2">>, <<"l1", "l2", "l3">>}

\* The values of config.max_results: Config declares a plain int
MaxResultsValues == {-1, 0, 1, 2, 5}

\* job_links[: n], the slice of Python: a negative n counts from the end
Slice(job_links, n) ==
    LET stop == IF n >= 0 THEN n ELSE Len(job_links) + n
        last == IF stop < 0 THEN 0
                ELSE IF stop > Len(job_links) THEN Len(job_links) ELSE stop
    IN  SubSeq(job_links, 1, last)

\* JobCard(..., link=url): the card scrape_job_details returns for a link
JobCard(url) == Rec("JobCard", url, <<>>, 0)

\* What scrape_linkedin_jobs has in hand in its loop: the links it has
\* called scrape_job_details for, and the results list
Scraped(attempted, results) == [attempted |-> attempted, results |-> results]

\* the loop of scrape_linkedin_jobs over the sliced links; failing is the
\* set of links for which scrape_job_details raises
RECURSIVE ScrapeLoop(_, _, _)
ScrapeLoop(todo, failing, acc) ==
    IF todo = <<>> THEN acc
    ELSE LET link == Head(todo) IN
         ScrapeLoop(Tail(todo), failing,
                    Scraped(Append(acc.attempted, link),
                            IF link \in failing THEN acc.results
                            ELSE Append(acc.results, JobCard(link))))

\* scrape_linkedin_jobs after the search page has been read: job_links is
\* what scrape_job_links_from_search_page returned
scrape_linkedin_jobs(job_links, max_results, failing) ==
    ScrapeLoop(Slice(job_links, max_results), failing, Scraped(<<>>, <<>>))

\* scrape_linkedin_jobs(Config(keywords=..., max_results=...))
DirectScrape ==
    /\ \E job_links \in JobLinks : \E max_results \in MaxResultsValues :
         \E failing \in SUBSET {job_links[k] : k \in DOMAIN job_links} :
           direct' = DirectCall("scrape_linkedin_jobs",
                                [job_links |-> job_links,
                                 max_results |-> max_results],
                                failing,
                                scrape_linkedin_jobs(job_links, max_results,
                                                     failing))
    /\ UNCHANGED <<chatVars, appVars>>

DirectNext ==
    \/ DirectConstruct
    \/ DirectScrape
    \/ DirectBothPaths
    \/ DirectProcessAll
    \/ DirectQuery
    \/ DirectMatch
    \/ DirectTweak
    \/ DirectSearchBranch

DirectSpec == Init /\ [][DirectNext]_vars

\* The consumer of the generator keeps asking for the next fragment, and
\* every model and collaborator call returns or raises
FairSpec == Spec /\ WF_vars(ModelRound) /\ WF_vars(ToolDispatch)
                 /\ WF_vars(ToolTry) /\ WF_vars(ToolExcept)
                 /\ WF_vars(FinalizeMarker) /\ WF_vars(FinalizeCall)

-----------------------------------------------------------------------------
(* Reading the history.                                                    *)

InRound == pc \in {"dispatch", "try", "except"}

InTurn == pc \in {"loop", "dispatch", "try", "except", "final"}

IsToolMsg(i) == history[i].role = "tool"

\* an assistant message that carries invocation requests
IsRequest(i) ==
    history[i].role = "assistant" /\ history[i].tool_calls # <<>>

Max(S) == CHOOSE x \in S : \A y \in S : y <= x

\* position of the user message of the turn in progress (0 before any turn)
TurnStart ==
    LET U == {i \in DOMAIN history : history[i].role = "user"}
    IN  IF U = {} THEN 0 ELSE Max(U)

TurnMsgs == {i \in DOMAIN history : i > TurnStart}

\* the positions of the tool messages that directly follow position i
ToolRun(i) ==
    {j \in DOMAIN history :
       j > i /\ \A k \in (i + 1)..j : IsToolMsg(k)}

CallIds(calls) == {calls[k].id : k \in DOMAIN calls}

\* the round of the request message at i is over: the for loop has left
\* its tool calls
RoundClosed(i) ==
    ~(InRound /\ i \in TurnMsgs /\ history[i].tool_calls = tool_calls)

\* the for loop is past the call at position k of the request message at i
Passed(i, k) ==
    \/ RoundClosed(i)
    \/ k < idx

\* the tool messages that answer call c of the request message at i
Answers(i, c) == {j \in ToolRun(i) : history[j].tool_call_id = c.id}

\* the successful search_jobs tool messages of the turn for calls before id
SearchesBefore(id) ==
    {j \in TurnMsgs :
       /\ IsToolMsg(j)
       /\ history[j].name = "search_jobs"
       /\ ~IsErrorContent(history[j].content)
       /\ history[j].tool_call_id < id}

\* the entries of collabLog for call identifier id
CollabCallsOf(id) == {k \in DOMAIN collabLog : collabLog[k].id = id}

-----------------------------------------------------------------------------
(* Properties.                                                             *)

\* C1 (closure): once the tool processing of a round is over, the number of
\* tool messages appended in the round equals the number of invocation
\* requests of the round's assistant message.
C1_Closure ==
    \A i \in DOMAIN history :
      (IsRequest(i) /\ RoundClosed(i)) =>
        Cardinality(ToolRun(i)) = Len(history[i].tool_calls)

\* C2: a request whose tool name is none of the three registered names is
\* answered by a tool message keyed to its call identifier whose content is
\* an error marker.
C2_UnknownToolAnswered ==
    \A i \in DOMAIN history :
      IsRequest(i) =>
        \A k \in DOMAIN history[i].tool_calls :
          LET c == history[i].tool_calls[k] IN
          (~HasBranch(c.name) /\ Passed(i, k)) =>
            \E j \in Answers(i, c) : IsErrorContent(history[j].content)

WithTools == {k \in DOMAIN modelLog : modelLog[k] = "tools"}

WithoutTools == {k \in DOMAIN modelLog : modelLog[k] = "no_tools"}

TurnRequests == {i \in TurnMsgs : IsRequest(i)}

\* the model asked for a tool in every round the bound allows
EveryRoundRequestedTools == Cardinality(TurnRequests) >= max_iterations

\* the text of the forced reply, read off the history: the forced call is
\* the only one that appends an assistant message without requests after a
\* round of tool calls
ForcedText ==
    LET last == history[Len(history)] IN
    IF last.role = "assistant" /\ last.tool_calls = <<>>
    THEN last.content.text ELSE ""

FinalizingAt == {k \in DOMAIN fragments : fragments[k] = FinalizingFragment}

ForcedCallMade ==
    /\ modelLog = [k \in 1..max_iterations |-> "tools"] \o <<"no_tools">>
    /\ Cardinality(FinalizingAt) = 1

\* C4 as stated: when every with-tools round requested a tool, exactly one
\* further model call without tools is made, the 'Finalizing response...'
\* marker precedes it, and the forced call's text is the last fragment.
C4_ForcedTextIsLastFragment ==
    (EveryRoundRequestedTools /\ pc = "done") =>
      /\ ForcedCallMade
      /\ fragments[Len(fragments)] = Text(ForcedText)
      /\ fragments[Len(fragments) - 1] = FinalizingFragment

\* C4 as amended: the forced call is made once, after the marker; its text
\* is the last fragment when it is not empty, and when it is empty nothing
\* is emitted after the marker.
C4_ForcedFinalization ==
    (EveryRoundRequestedTools /\ pc \in {"done", "failed"}) =>
      /\ ForcedCallMade
      /\ pc = "done" =>
           IF ForcedText # ""
           THEN /\ fragments[Len(fragments)] = Text(ForcedText)
                /\ fragments[Len(fragments) - 1] = FinalizingFragment
           ELSE fragments[Len(fragments)] = FinalizingFragment

\* a turn of max_iterations = 2 ended by a forced reply with text
C4_Witness ==
    /\ pc = "done"
    /\ max_iterations = 2
    /\ EveryRoundRequestedTools
    /\ ForcedText = "answer"
    /\ Len(modelLog) = 3

\* What is left of the turn: the rounds the bound still allows, the tool
\* calls of the round still to process, and the steps left for the one
\* in hand
RoundsLeft == session.max_iterations - session.iterations

CallsLeft == IF InRound THEN Len(tool_calls) + 1 - idx ELSE 0

StepsLeft ==
    CASE pc = "dispatch" -> 3
      [] pc \in {"try", "loop"} -> 2
      [] pc \in {"except", "final"} -> 1
      [] OTHER -> 0

\* one step of an unfinished turn takes the turn closer to its end
TurnAdvances ==
    InTurn =>
      \/ RoundsLeft' < RoundsLeft
      \/ RoundsLeft' = RoundsLeft /\ CallsLeft' < CallsLeft
      \/ RoundsLeft' = RoundsLeft /\ CallsLeft' = CallsLeft
           /\ StepsLeft' < StepsLeft

\* C5: every turn terminates.  An unfinished turn can always take a step,
\* every step lowers what is left of the turn, which never goes below
\* zero, and so a turn whose consumer keeps reading reaches a terminal
\* state (answer, forced answer or propagated model failure).
C5_TurnTerminates ==
    /\ [](InTurn => ENABLED <<Next>>_vars)
    /\ [](RoundsLeft >= 0 /\ CallsLeft >= 0)
    /\ [][TurnAdvances]_vars
    /\ (InTurn ~> pc \in {"done", "failed"})

\* a turn in which the model asked for tools in every round has ended
C5_Witness ==
    /\ pc = "done"
    /\ max_iterations = 2
    /\ EveryRoundRequestedTools
    /\ Len(fragments) >= 4

\* the collaborator was called for call c of the turn and raised
CollaboratorRaised(i, c) ==
    /\ CollabCallsOf(c.id) # {}
    /\ \E j \in Answers(i, c) : IsErrorContent(history[j].content)

\* a turn is only ever aborted by a model call: the failed call is the one
\* model call of the turn that has no assistant message
AbortIsModelFailure ==
    pc = "failed" =>
      Len(modelLog) >
        Cardinality({i \in TurnMsgs : history[i].role = "assistant"})

\* C6 (failure isolation): when the collaborator raises for one invocation
\* of a round, every other invocation of the round is still recorded as a
\* tool message, and the failure does not reach the caller of chat.
C6_FailureIsolation ==
    /\ AbortIsModelFailure
    /\ \A i \in TurnRequests :
         LET calls == history[i].tool_calls IN
         (RoundClosed(i)
            /\ \E k \in DOMAIN calls : CollaboratorRaised(i, calls[k])) =>
           \A k \in DOMAIN calls : Answers(i, calls[k]) # {}

NoJobsArgument(c) ==
    c.name = "match_job_to_resume" /\ c.arguments.shape = "empty"

\* C7: a match_job_to_resume request without jobs, made when the session
\* holds a prior search result, calls the resume collaborator with exactly
\* that result and is not a tool-level failure.
C7_DefaultsToPriorSearch ==
    \A i \in TurnRequests :
      \A k \in DOMAIN history[i].tool_calls :
        LET c == history[i].tool_calls[k] IN
        (NoJobsArgument(c) /\ Passed(i, k) /\ SearchesBefore(c.id) # {}) =>
          /\ \E e \in CollabCallsOf(c.id) :
               /\ collabLog[e].method = "run_resume_match"
               /\ collabLog[e].jobs =
                    history[Max(SearchesBefore(c.id))].content.jobs
          /\ \E j \in Answers(i, c) :
               history[j].content.text # "ValidationError"

\* C8: a match_job_to_resume request without jobs, made when the turn has
\* no prior search result, fails at the tool level: the resume collaborator
\* is not called, an error tool message keyed to the call identifier is
\* appended, and the turn is not aborted.
C8_NoJobsNoPriorFails ==
    /\ AbortIsModelFailure
    /\ \A i \in TurnRequests :
         \A k \in DOMAIN history[i].tool_calls :
           LET c == history[i].tool_calls[k] IN
           (NoJobsArgument(c) /\ Passed(i, k) /\ SearchesBefore(c.id) = {}) =>
             /\ CollabCallsOf(c.id) = {}
             /\ \E j \in Answers(i, c) : IsErrorContent(history[j].content)

\* a turn went on to its answer after such a request was closed out
C8_Witness ==
    /\ pc = "done"
    /\ fragments[Len(fragments)] = Text("answer")
    /\ \E i \in TurnRequests :
         \E k \in DOMAIN history[i].tool_calls :
           LET c == history[i].tool_calls[k] IN
           /\ NoJobsArgument(c)
           /\ SearchesBefore(c.id) = {}
           /\ ~Truthy(session.last_search_results)
           /\ \E j \in Answers(i, c) : IsErrorContent(history[j].content)

\* C9: every tool message carries an identifier of the nearest preceding
\* assistant message with invocation requests, and only tool messages lie
\* between the two.
C9_ToolMessagesFollowRequest ==
    \A j \in DOMAIN history :
      IsToolMsg(j) =>
        LET R == {i \in 1..(j - 1) : IsRequest(i)} IN
        /\ R # {}
        /\ history[j].tool_call_id \in CallIds(history[Max(R)].tool_calls)
        /\ \A k \in (Max(R) + 1)..(j - 1) : IsToolMsg(k)

\* tool messages in the histories of two successive turns
C9_Witness ==
    /\ turns = 2
    /\ \E j \in TurnMsgs : IsToolMsg(j)
    /\ \E j \in DOMAIN history : IsToolMsg(j) /\ j < TurnStart

\* the request message of the round in progress
CurrentRequest == Max(TurnRequests)

\* C10: within a round the invocations are processed one after another in
\* the order emitted and their tool messages stand in that order; an
\* invocation is started only when every invocation before it has been
\* closed out, and it finds the session state they wrote.
C10_OrderedAndClosedOut ==
    /\ \A i \in DOMAIN history :
         IsRequest(i) =>
           \A j1, j2 \in ToolRun(i) :
             j1 < j2 => history[j1].tool_call_id < history[j2].tool_call_id
    /\ \A e1, e2 \in DOMAIN collabLog :
         e1 < e2 => collabLog[e1].id < collabLog[e2].id
    /\ pc \in {"try", "except"} =>
         /\ \A k \in 1..(idx - 1) :
              Answers(CurrentRequest, tool_calls[k]) # {}
         /\ session.last_search_results =
              IF SearchesBefore(tool_calls[idx].id) = {} THEN None
              ELSE SearchResults(
                     history[Max(SearchesBefore(tool_calls[idx].id))].content.jobs)

\* the assistant messages of the turn in progress
TurnAssistant == {i \in TurnMsgs : history[i].role = "assistant"}

\* a step of chat: with the generator ended there is none
ChatStep ==
    \/ ModelRound \/ ToolDispatch \/ ToolTry \/ ToolExcept
    \/ FinalizeMarker \/ FinalizeCall

\* C11: a failure of the model call, in a with-tools round or in the forced
\* call, is not caught by chat: it ends the generator (chat takes no further
\* step), and no assistant message is
\* appended for the failed call, so the turn has one assistant message for
\* every model call but the failed one.
C11_ModelFailurePropagates ==
    pc = "failed" =>
      /\ ~ENABLED ChatStep
      /\ Cardinality(TurnAssistant) = Len(modelLog) - 1

\* the first turn failed at its first model call, the second at its forced
\* call
C11_Witness ==
    /\ pc = "failed"
    /\ turns = 2
    /\ history[3].role = "user"
    /\ modelLog[Len(modelLog)] = "no_tools"

\* C14: in every reachable state of a ChatAgent, after construction and
\* after any sequence of turns (failed ones included), history holds exactly
\* one system message, the first message, with the instruction text.
C14_OneSystemMessageFirst ==
    /\ Len(history) >= 1
    /\ history[1] = SystemMessage("CHAT_AGENT_SYSTEM_PROMPT")
    /\ {i \in DOMAIN history : history[i].role = "system"} = {1}

\* a second turn with tool messages has ended after a first turn that failed
\* at its first model call
C14_Witness ==
    /\ pc = "done"
    /\ turns = 2
    /\ history[3].role = "user"
    /\ \E j \in TurnMsgs : IsToolMsg(j)

\* the turn ended at its first model call with an answer that has text
FirstReplyIsAnswer ==
    /\ pc = "done"
    /\ modelLog = <<"tools">>
    /\ TurnAssistant = {Len(history)}
    /\ history[Len(history)].tool_calls = <<>>
    /\ history[Len(history)].content.text # ""

\* C15: when the first reply of a turn carries no invocation requests and
\* has text, chat emits exactly one fragment, equal to that text, and makes
\* no further model call.
C15_AnswerIsOnlyFragment ==
    FirstReplyIsAnswer =>
      /\ fragments = <<history[Len(history)].content>>
      /\ Len(modelLog) = 1

\* the turn had two model calls: the first reply asked for search_jobs and
\* nothing else, the second was an answer with text
SearchThenAnswer ==
    /\ pc = "done"
    /\ modelLog = <<"tools", "tools">>
    /\ Cardinality(TurnRequests) = 1
    /\ \A i \in TurnRequests :
         \A k \in DOMAIN history[i].tool_calls :
           history[i].tool_calls[k].name = "search_jobs"
    /\ history[Len(history)].role = "assistant"
    /\ history[Len(history)].tool_calls = <<>>
    /\ history[Len(history)].content.text # ""

\* C16: in a turn whose first reply requests search_jobs and whose second
\* reply is a final answer, the first fragment is the 'Searching for
\* jobs...' marker and the last fragment is the text of the answer.
C16_SearchMarkerFirstAnswerLast ==
    SearchThenAnswer =>
      /\ fragments[1] = Marker("search_jobs")
      /\ fragments[Len(fragments)] = history[Len(history)].content

\* the try block of the search_jobs call in hand ends without an exception
SearchSucceeds ==
    /\ pc = "try"
    /\ tool_calls[idx].name = "search_jobs"
    /\ pc' # "except"

\* C17: when a search_jobs invocation succeeds, the result the retrieval
\* collaborator returned is stored unchanged as the session's most recent
\* retrieval result and under last_search, and the closing tool message,
\* keyed by the call identifier, carries the serialization of exactly that
\* result: the same postings in the same order.
C17_SearchResultStoredAndSerialized ==
    [][SearchSucceeds =>
         LET call == tool_calls[idx]
             closing == history'[Len(history')]
         IN  /\ Len(history') = Len(history) + 1
             /\ closing.role = "tool"
             /\ closing.tool_call_id = call.id
             /\ closing.name = "search_jobs"
             /\ closing.content.kind = "json_SearchResults"
             /\ \E ext \in Externals(call) :
                  LET r == query_vectorstore(call.arguments, ext) IN
                  /\ ~r.raised
                  /\ session'.last_search_results = r.value
                  /\ session'.tool_results.last_search = r.value
                  /\ closing.content.jobs = r.value.jobs
             /\ session'.tool_results.last_match =
                  session.tool_results.last_match
             /\ session'.tool_results.last_tweaks =
                  session.tool_results.last_tweaks]_vars

\* the turn went on after a search that returned a posting: the session
\* holds the result and the tool message carries it
C17_Witness ==
    /\ pc = "loop"
    /\ Truthy(session.last_search_results)
    /\ session.last_search_results.jobs # <<>>
    /\ history[Len(history)].role = "tool"
    /\ history[Len(history)].content.jobs = session.last_search_results.jobs

\* C18: a suggest_resume_tweaks request with a valid job_description and a
\* working backend succeeds: its tool message carries the serialized
\* suggestions, not an error, and the result is recorded as last_tweaks.
C18_TweakSucceeds ==
    \A i \in TurnRequests :
      \A k \in DOMAIN history[i].tool_calls :
        LET c == history[i].tool_calls[k] IN
        (/\ c.name = "suggest_resume_tweaks"
         /\ ParseError(c.name, c.arguments) = ""
         /\ Passed(i, k)) =>
          /\ \E j \in Answers(i, c) :
               history[j].content.kind = "json_ResumeTweakResult"
          /\ session.tool_results.last_tweaks.kind = "ResumeTweakResult"

\* C19: query_vectorstore returns one job posting for every document the
\* vector store returned for the query, in the order the store returned
\* them.
C19_OnePostingPerDocument ==
    (direct.method = "query_vectorstore" /\ ~direct.ext.fails) =>
      /\ ~direct.out.raised
      /\ direct.out.value = SearchResults(direct.ext.docs)

\* C20: when the backend returns a null structured result for a resume
\* match, run_resume_match returns exactly (best_match_id = 0,
\* reasoning = "") and does not raise.
C20_NullResultFallsBack ==
    (/\ direct.method = "run_resume_match"
     /\ ~direct.ext.fails
     /\ direct.ext.parsed = None) =>
      direct.out = Returned(ResumeMatchResult(0, ""))

\* run_resume_match was called on two postings and the backend came back
\* with no parsed result
C20_Witness ==
    /\ direct.method = "run_resume_match"
    /\ Len(direct.args.jobs) = 2
    /\ ~direct.ext.fails
    /\ direct.ext.parsed = None
    /\ ~direct.out.raised
    /\ direct.out.value.best = 0

\* C12: after reset_conversation the active conversation history is exactly
\* the one system message, so that a second reset leaves an identical
\* history.  Stated for a reset of an app that holds an agent.
C12_ResetLeavesFreshHistory ==
    [][(reset_conversation /\ agent # 0) =>
         /\ agent' # 0
         /\ chat_history'[agent'] = ChatHistory]_vars

\* C13: the history of an agent is never shared by concurrent turns: in no
\* history are the messages of two turns interleaved, so the messages each
\* request appended stand together (no tool message is separated from its
\* assistant message by a message of another turn).
C13_TurnsNotInterleaved ==
    \A a \in AgentIds :
      \A i, j, k \in DOMAIN appended_by[a] :
        (i < j /\ j < k /\ appended_by[a][i] = appended_by[a][k]) =>
          appended_by[a][j] = appended_by[a][i]

\* the payload of call c is not JSON or lacks a field the schema of the
\* named tool requires
BadPayload(c) ==
    HasBranch(c.name) /\ c.arguments.shape # RequiredShape(c.name)

\* C21: an argument payload that is malformed or violates the schema of the
\* named tool fails only that invocation: the collaborator is not called
\* for it, an error tool message keyed to its call identifier is appended,
\* the loop goes on to the remaining invocations and rounds, and the turn is
\* not aborted.
C21_BadPayloadFailsOnlyItsCall ==
    /\ AbortIsModelFailure
    /\ \A i \in TurnRequests :
         \A k \in DOMAIN history[i].tool_calls :
           LET c == history[i].tool_calls[k] IN
           BadPayload(c) =>
             /\ CollabCallsOf(c.id) = {}
             /\ Passed(i, k) =>
                  \E j \in Answers(i, c) : IsErrorContent(history[j].content)
    /\ (pc = "except" /\ BadPayload(tool_calls[idx])) =>
         /\ pending \in {"JSONDecodeError", "ValidationError"}
         /\ ENABLED ToolExcept

\* after a malformed payload in the first round, the second invocation of
\* the round called its collaborator and a later round ended the turn with
\* an answer
C21_Witness ==
    /\ pc = "done"
    /\ Cardinality(TurnAssistant) = 2
    /\ fragments[Len(fragments)] = Text("answer")
    /\ \E i \in TurnRequests :
         LET calls == history[i].tool_calls IN
         /\ Len(calls) = 2
         /\ calls[1].arguments.shape = "malformed"
         /\ \E j \in Answers(i, calls[1]) :
              history[j].content = ErrorContent("JSONDecodeError")
         /\ CollabCallsOf(calls[2].id) # {}

\* C22: a search_jobs call whose n_results is zero or negative is rejected
\* by the validation of its arguments: the branch raises ValidationError
\* and the retrieval collaborator is not called.
C22_NonPositiveNResultsRejected ==
    (direct.method = "chat.search_jobs"
       /\ direct.args.arguments.n_results <= 0) =>
      /\ direct.out.kind = "raise"
      /\ direct.out.exc = "ValidationError"
      /\ direct.out.calls = <<>>

\* C23: constructing the ResumeAgent never fails because of the resume
\* file: with a missing, unreadable or empty file the construction
\* succeeds and the resume is the empty string.
C23_ConstructionNeverFails ==
    direct.method = "ResumeAgent" =>
      /\ ~direct.out.raised
      /\ direct.args # "text" => direct.out.value.resume = ""

\* C24: _process_all_tool_calls returns a list with one entry per tool
\* call, in the order of the calls (the result of a call that succeeded,
\* None for one that failed), appends exactly one tool message per call in
\* the same order (the serialized result, or "Error: <message>" for a
\* failed call), and never raises.
C24_OneEntryAndOneMessagePerCall ==
    direct.method = "_process_all_tool_calls" =>
      LET calls == direct.args
          out == direct.out
          first == Len(ChatHistory)
      IN  /\ ~out.raised
          /\ Len(out.results) = Len(calls)
          /\ Len(out.history) = first + Len(calls)
          /\ SubSeq(out.history, 1, first) = ChatHistory
          /\ \A k \in DOMAIN calls :
               LET m == out.history[first + k] IN
               /\ m.role = "tool"
               /\ m.tool_call_id = calls[k].id
               /\ m.name = calls[k].name
               /\ IF out.results[k] = None
                  THEN IsErrorContent(m.content)
                  ELSE /\ ~IsErrorContent(m.content)
                       /\ m.content.jobs = out.results[k].jobs
                       /\ m.content.text = out.results[k].text

\* two calls, the first fails in its collaborator, the second succeeds
C24_Witness ==
    /\ direct.method = "_process_all_tool_calls"
    /\ Len(direct.args) = 2
    /\ direct.out.results[1] = None
    /\ direct.out.results[2] # None
    /\ Len(direct.out.calls) = 2

\* the replies without tool requests given in a round k <= max_iterations
\* of the turn: the k-th assistant message of the turn is the reply of the
\* k-th model call
NaturalAnswers ==
    {j \in TurnAssistant :
       /\ history[j].tool_calls = <<>>
       /\ Cardinality({i \in TurnAssistant : i <= j}) <= max_iterations}

\* C25: when the reply of a round k <= max_iterations carries no tool
\* request, the turn ends in that round: no forced finalization call is
\* made, no "Finalizing response..." marker is emitted, and no model call
\* follows the reply.
C25_AnswerEndsTurn ==
    NaturalAnswers # {} =>
      /\ pc = "done"
      /\ NaturalAnswers = {Len(history)}
      /\ WithoutTools = {}
      /\ FinalizingAt = {}
      /\ Len(modelLog) = Cardinality(TurnAssistant)

\* the answer came in the second of two rounds, after a round of tools
C25_Witness ==
    /\ NaturalAnswers # {}
    /\ max_iterations = 2
    /\ modelLog = <<"tools", "tools">>
    /\ TurnRequests # {}

\* the forced finalization call of the turn has returned
ForcedCallReturned ==
    /\ pc = "done"
    /\ modelLog # <<>>
    /\ modelLog[Len(modelLog)] = "no_tools"

\* C26: after a forced finalization call that returns, its reply is
\* appended as the final assistant message without tool calls whatever its
\* content, the empty text included: at the end of such a turn the last
\* message of the history is an assistant message.
C26_ForcedReplyAlwaysAppended ==
    ForcedCallReturned =>
      /\ history[Len(history)].role = "assistant"
      /\ history[Len(history)].tool_calls = <<>>
      /\ Cardinality(TurnAssistant) = Len(modelLog)

\* the first reply of the turn carries neither tool requests nor text
FirstReplyIsEmpty ==
    /\ pc = "done"
    /\ modelLog = <<"tools">>
    /\ TurnAssistant = {Len(history)}
    /\ history[Len(history)] = AssistantMessage("", <<>>)

\* C27: a reply with no tool request and empty content ends the turn
\* successfully with no output: no exception, the empty assistant message
\* appended, and no fragment emitted for the turn.
C27_EmptyAnswerEmitsNothing ==
    FirstReplyIsEmpty => fragments = <<>>

\* chat has built its session and has not called the model yet
TurnJustStarted == pc = "loop" /\ modelLog = <<>>

\* C28: session state does not persist across turns.  Every chat starts
\* with iterations = 0, no named result, no most-recent retrieval result
\* and the cap of the agent; a retrieval result held by the session was
\* produced in the turn in progress, and every run_resume_match call gets
\* the postings its own request supplied, never those of an earlier turn.
C28_FreshSessionEachTurn ==
    /\ TurnJustStarted =>
         /\ session.iterations = 0
         /\ session.max_iterations = max_iterations
         /\ \A key \in DOMAIN session.tool_results :
              session.tool_results[key] = None
         /\ session.last_search_results = None
    /\ (InTurn /\ session.last_search_results # None) =>
         \E j \in TurnMsgs :
           /\ IsToolMsg(j)
           /\ history[j].name = "search_jobs"
           /\ history[j].content.kind = "json_SearchResults"
           /\ history[j].content.jobs = session.last_search_results.jobs
    /\ \A k \in DOMAIN collabLog :
         collabLog[k].method = "run_resume_match" =>
           \E i \in TurnRequests :
             \E c \in DOMAIN history[i].tool_calls :
               LET call == history[i].tool_calls[c] IN
               /\ call.id = collabLog[k].id
               /\ call.arguments.shape = "jobs"
               /\ call.arguments.jobs = collabLog[k].jobs

\* the second turn has just started and the first one held a search result
C28_Witness ==
    /\ TurnJustStarted
    /\ turns = 2
    /\ \E j \in DOMAIN history :
         /\ j < TurnStart
         /\ IsToolMsg(j)
         /\ history[j].name = "search_jobs"
         /\ history[j].content.kind = "json_SearchResults"
         /\ history[j].content.jobs # <<>>

\* the positions history' has beyond those of history
Appended == (Len(history) + 1)..Len(history')

\* C29: under chat the history is append-only.  The history before a step
\* is a prefix of the history after it, so nothing is removed, reordered
\* or modified, also in the step in which a failure of the model call ends
\* the turn; the step that starts a turn appends exactly one message, the
\* user message, and no other step appends a user message.
C29_HistoryAppendOnly ==
    [][/\ Len(history') >= Len(history)
       /\ SubSeq(history', 1, Len(history)) = history
       /\ IF turns' # turns
          THEN /\ Len(history') = Len(history) + 1
               /\ history'[Len(history')].role = "user"
          ELSE \A j \in Appended : history'[j].role # "user"]_vars

\* the forced call of the second turn failed after a round of tool calls:
\* the history holds both user messages and the messages of the round
C29_Witness ==
    /\ pc = "failed"
    /\ turns = 2
    /\ modelLog[Len(modelLog)] = "no_tools"
    /\ TurnRequests # {}
    /\ Cardinality({i \in DOMAIN history : history[i].role = "user"}) = 2
    /\ \E j \in TurnMsgs : IsToolMsg(j)

\* C30: in a turn the collaborator of a tool invocation request is called
\* at most once and the request gets at most one tool message; a
\* collaborator call that failed is not made again, and after a failed
\* model call no further model call is made (the failed call is the one
\* call of the turn without an assistant message).
C30_AtMostOnce ==
    /\ \A k1, k2 \in DOMAIN collabLog :
         collabLog[k1].id = collabLog[k2].id => k1 = k2
    /\ \A i \in TurnRequests :
         \A k \in DOMAIN history[i].tool_calls :
           Cardinality(Answers(i, history[i].tool_calls[k])) <= 1
    /\ pc = "failed" => Len(modelLog) = Cardinality(TurnAssistant) + 1
    /\ Len(modelLog) <= Cardinality(TurnAssistant) + 1

\* a turn that went on to its end after the collaborator of a search
\* request had failed: the request has its one call and its one error
\* message
C30_Witness ==
    /\ pc = "done"
    /\ \E i \in TurnRequests :
         \E k \in DOMAIN history[i].tool_calls :
           LET c == history[i].tool_calls[k] IN
           /\ c.name = "search_jobs"
           /\ Cardinality(CollabCallsOf(c.id)) = 1
           /\ \E j \in Answers(i, c) :
                history[j].content = ErrorContent("APIError")

\* C31: the error tool message of a collaborator failure carries the text
\* of the collaborator's own failure: when the backend request inside
\* run_resume_match raises, the tool message of the call carries the text
\* of that backend exception.  (In the model a run_resume_match call that
\* was made fails only through its backend request, which raises APIError.)
C31_ErrorCarriesBackendText ==
    \A i \in TurnRequests :
      \A k \in DOMAIN history[i].tool_calls :
        LET c == history[i].tool_calls[k] IN
        (c.name = "match_job_to_resume" /\ CollabCallsOf(c.id) # {}) =>
          \A j \in Answers(i, c) :
            IsErrorContent(history[j].content) =>
              history[j].content = ErrorContent("APIError")

\* C32: the first model call of every turn offers the tool schemas; forced
\* finalization is never the first model call of a turn, for every agent
\* that can be constructed.
C32_FirstCallOffersTools ==
    modelLog # <<>> => modelLog[1] = "tools"

\* C33: every model call made inside the bounded loop offers the same
\* ordered list of exactly three tool schemas (search_jobs,
\* match_job_to_resume, suggest_resume_tweaks), and the forced finalization
\* call offers none.
C33_SameThreeSchemasEveryRound ==
    /\ DOMAIN offered = DOMAIN modelLog
    /\ \A k \in DOMAIN modelLog :
         offered[k] = IF modelLog[k] = "tools"
                      THEN <<"search_jobs", "match_job_to_resume",
                             "suggest_resume_tweaks">>
                      ELSE <<>>

\* two rounds with tools and the forced call have been made
C33_Witness ==
    /\ modelLog = <<"tools", "tools", "no_tools">>
    /\ Len(offered) = 3
    /\ offered[1] = offered[2]
    /\ offered[3] = <<>>

\* C34: a failed tool invocation leaves the session state unchanged (the
\* most recent retrieval result and the named results last_search,
\* last_match and last_tweaks keep their values), so that a later
\* match_job_to_resume request without jobs in the same turn still gets the
\* result of the last successful search.
C34_FailedCallKeepsSession ==
    direct.method = "chat.for" =>
      LET calls == direct.args.calls
          out == direct.out.inline
          Before(k) == IF k = 1 THEN direct.args.session
                       ELSE out.sessions[k - 1]
          Failed(k) == \E j \in DOMAIN out.history :
                         /\ out.history[j].tool_call_id = calls[k].id
                         /\ IsErrorContent(out.history[j].content)
      IN  \A k \in DOMAIN calls :
            /\ Failed(k) => out.sessions[k] = Before(k)
            /\ ( /\ NoJobsArgument(calls[k])
                 /\ Truthy(Before(k).last_search_results)
                 /\ \E f \in 1..(k - 1) : Failed(f) ) =>
                 \E e \in DOMAIN out.calls :
                   /\ out.calls[e].id = calls[k].id
                   /\ out.calls[e].method = "run_resume_match"
                   /\ out.calls[e].jobs = Before(k).last_search_results.jobs

\* chat is suspended at the yield of a progress marker (before the try of
\* the branch) or at the yield of error_msg (in the except handler): the
\* fragment is with the consumer and chat runs on only when asked for the
\* next one
SuspendedInBranch == pc \in {"try", "except"}

\* C35: no unanswered tool call is left in the history when a turn is
\* abandoned: at every point at which chat has handed a fragment to its
\* consumer, every tool invocation request in the history has a matching
\* tool message.
C35_NoDanglingCallAtYield ==
    SuspendedInBranch =>
      \A i \in DOMAIN history :
        IsRequest(i) =>
          \A k \in DOMAIN history[i].tool_calls :
            Answers(i, history[i].tool_calls[k]) # {}

\* C36: the two tool-processing paths agree: for every list of tool
\* invocation requests, starting session and collaborator behaviour, the
\* tool messages the for loop of chat appends to the history (call
\* identifiers, order, result or error content) are those
\* _process_all_tool_calls appends.
C36_PathsAppendSameMessages ==
    direct.method = "chat.for" =>
      direct.out.inline.history = direct.out.processed.history

\* C37: whenever reset_conversation reports "CONVERSATION RESET" the app
\* holds an available agent with a fresh history; a reset whose
\* re-initialization fails reports an error or "Unable to reset", and it
\* does not leave an app that had an agent without one.
C37_ResetReportIsTrue ==
    [][reset_conversation =>
         /\ reset_result' = "CONVERSATION RESET" =>
              /\ agent' # 0
              /\ chat_history'[agent'] = ChatHistory
         /\ agent' = 0 =>
              /\ reset_result' # "CONVERSATION RESET"
              /\ agent = 0]_vars

\* C38: a reset is not undone by a request that was in flight when it was
\* issued: the history of the active agent is the single system message
\* until a chat request starts after the reset, so every other message in
\* it was appended by a request that found this agent when it started.
C38_ResetNotUndone ==
    agent # 0 =>
      \A p \in DOMAIN appended_by[agent] :
        LET r == appended_by[agent][p] IN
        r # 0 => handler[r].checked = agent

\* the positions of a request whose chat_response has not raised
ShellPositions ==
    {"new", "checked", "start", "loop", "dispatch", "try", "except", "final",
     "returned"}

\* the instances whose history holds a message appended by request r
AppendedBy(r) ==
    {a \in AgentIds :
       \E p \in DOMAIN appended_by[a] : appended_by[a][p] = r}

\* C39: chat_response never raises.  An exception that leaves the turn of
\* the agent (a model call that fails) is caught and shown as an "**Error**"
\* entry for the message; a blank message gives no update and no call of
\* the agent; with no agent available the one update is "System Error".
C39_ShellNeverRaises ==
    [][\A r \in Requests :
         /\ handler'[r].pc \in ShellPositions
         /\ ( /\ handler[r].pc = "loop"
              /\ handler'[r].session.iterations
                   # handler[r].session.iterations
              /\ appended_by' = appended_by ) =>
              /\ handler'[r].pc = "returned"
              /\ handler'[r].shown = "Error"
         /\ (handler[r].pc = "new" /\ strip(handler'[r].message) = ""
               /\ handler'[r].pc # "new") =>
              /\ handler'[r].pc = "returned"
              /\ handler'[r].shown = ""
              /\ chat_history' = chat_history
         /\ (handler[r].pc = "new" /\ strip(handler'[r].message) # ""
               /\ agent = 0) =>
              /\ handler'[r].pc = "returned"
              /\ handler'[r].shown = "System Error"
              /\ chat_history' = chat_history
         /\ handler'[r].pc = "returned" =>
              /\ handler'[r].shown \in {"", "System Error"} =>
                   handler'[r].agent = 0
              /\ handler'[r].agent = 0 => AppendedBy(r)' = {}]_vars

\* one request was answered with the error of a failed model call, the
\* other one came with a blank message
C39_Witness ==
    \E r1, r2 \in Requests :
      /\ handler[r1].pc = "returned"
      /\ handler[r1].shown = "Error"
      /\ handler[r1].agent # 0
      /\ handler[r2].pc = "returned"
      /\ handler[r2].message = " "

\* the subsequence of s whose elements are not in S
RECURSIVE Without(_, _)
Without(s, S) ==
    IF s = <<>> THEN <<>>
    ELSE IF Head(s) \in S THEN Without(Tail(s), S)
    ELSE <<Head(s)>> \o Without(Tail(s), S)

\* C40: scrape_linkedin_jobs attempts at most max_results job links (none
\* for a max_results below one), the first ones of the list, and returns
\* exactly one job card per attempted link whose scrape succeeded, in link
\* order; a link whose scrape raises is skipped and the links after it are
\* still attempted.
C40_AtMostMaxResultsInOrder ==
    direct.method = "scrape_linkedin_jobs" =>
      LET job_links == direct.args.job_links
          max_results == direct.args.max_results
          out == direct.out
          good == Without(out.attempted, direct.ext)
      IN  /\ Len(out.attempted) <= IF max_results < 0 THEN 0 ELSE max_results
          /\ Len(out.attempted) <= Len(job_links)
          /\ out.attempted = SubSeq(job_links, 1, Len(out.attempted))
          /\ Len(out.results) = Len(good)
          /\ \A k \in DOMAIN good : out.results[k].text = good[k]

====
